---- MODULE Spec2Model ----
\* Model of the Google Scholar scraper in src/main.go: main, ScraperService.Scrape
\* and its four collector callbacks, the csv.Writer the rows go through, and the
\* colly collector as main.go configures it (Async(true), MaxDepth(100), one
\* request per domain at a time).
\*
\* A text is a sequence of one-character strings.  A fetch is one goroutine the
\* collector starts for a page visit; its callbacks run in that goroutine, one
\* callback invocation per step, and the goroutines interleave between callback
\* invocations.
EXTENDS Integers, Sequences, FiniteSets, TLC

\* ---------------------------------------------------------------- bounds
MaxKept == 2             \* result blocks passing the filter that the site serves in one run

\* ------------------------------------------------------ program constants
MaxDepth == 100          \* colly.MaxDepth(100)

\* ------------------------------------------------------------------ texts
Upper == <<"A","B","C","D","E","F","G","H","I","J","K","L","M",
           "N","O","P","Q","R","S","T","U","V","W","X","Y","Z">>
Lower == <<"a","b","c","d","e","f","g","h","i","j","k","l","m",
           "n","o","p","q","r","s","t","u","v","w","x","y","z">>

ToLowerChar(c) ==
    IF \E i \in 1..Len(Upper) : Upper[i] = c
    THEN Lower[CHOOSE i \in 1..Len(Upper) : Upper[i] = c]
    ELSE c

\* strings.ToLower
ToLower(s) == [i \in 1..Len(s) |-> ToLowerChar(s[i])]

\* strings.Contains
Contains(s, sub) ==
    \E i \in 0..(Len(s) - Len(sub)) : \A j \in 1..Len(sub) : s[i + j] = sub[j]

RECURSIVE TrimLeft(_)
TrimLeft(s) == IF s # << >> /\ Head(s) = " " THEN TrimLeft(Tail(s)) ELSE s

RECURSIVE TrimRight(_)
TrimRight(s) ==
    IF s # << >> /\ s[Len(s)] = " " THEN TrimRight(SubSeq(s, 1, Len(s) - 1)) ELSE s

\* strings.TrimSpace
TrimSpace(s) == TrimRight(TrimLeft(s))

NextText == <<"N","e","x","t">>
PrevText == <<"P","r","e","v","i","o","u","s">>
PageTwoText == <<"2">>

\* ----------------------------------------------------------------- inputs
\* The values of Scrape's parameter maxPages the runs are checked for.  The site
\* itself is unbounded: maxPages is what bounds the pages of a run.
PageCaps == {1, 2}

\* The search terms of a run (-query; flags() rejects the empty term).
Terms == { <<"d","E">> }

\* What the site can serve as a result block: the raw texts of .gs_rt and .gs_rs.
BlockSet ==
    { [title |-> <<" ">>,         snippet |-> << >>],
      [title |-> <<"x">>,         snippet |-> << >>],
      [title |-> <<"D","e">>,     snippet |-> << >>],
      [title |-> <<"x">>,         snippet |-> <<"d","E"," ">>] }

\* What the site can serve as a pagination anchor, when the urls in seen have
\* been visited: its text ("Previous", "Next", a page number) and its href.  Urls
\* are numbers: 0 is the start url, the others are numbered in the order the run
\* first visits them.  The href is the start url, which is visited from the
\* first request on, or a url not visited yet, which gets the next number.
NavSet(seen) ==
    { [text |-> PrevText, href |-> 0], [text |-> NextText, href |-> 0] }
      \cup { [text |-> t, href |-> Cardinality(seen)] : t \in {NextText, PageTwoText} }

\* Outcome of the file I/O behind one record: "ok"; "writeFail": the record did
\* not fit the writer's buffer and writing it through to the file failed;
\* "flushFail": the record was buffered and the Flush that follows failed.
IoSet == { "ok", "writeFail", "flushFail" }

\* ------------------------------------------------------------------ state
VARIABLES
    pc,                 \* where main/Scrape stands
    maxPages, term,     \* Scrape's parameters
    currentPage,        \* *currentPage (main's page)
    citations, totalCitations, lastProcessedPage,   \* Scrape's locals
    buf,                \* rows in the csv.Writer's buffer, not yet in the file
    file,               \* rows in the output file
    werr,               \* the writer's sticky error (bufio.Writer)
    log,                \* the lines logged so far
    fetches,            \* the fetch goroutines started so far, in start order
    visited,            \* urls the collector has marked visited
    written, foundOn,   \* history: rows whose Write returned nil, and the fetch each came from
    issued,             \* history: number of e.Request.Visit calls made
    keptServed,         \* history: number of result blocks served that passed the filter
    arg, res            \* a result block handled on its own, and what came of it

vars == << pc, maxPages, term, currentPage, citations, totalCitations, lastProcessedPage,
           buf, file, werr, log, fetches, visited, written, foundOn, issued,
           keptServed, arg, res >>

blockVars == << arg, res >>
crawlVars == << currentPage, citations, totalCitations, lastProcessedPage >>
sinkVars == << buf, file, werr, written, foundOn >>

Line(k, a, b) == [k |-> k, a |-> a, b |-> b]

\* log.Printf: the log l with one more line
Logged(l, line) == Append(l, line)

\* headers.values, as a row
Header == [title |-> <<"T","i","t","l","e">>, snippet |-> <<"S","n","i","p","p","e","t">>,
           page |-> 0]

\* A fetch just started: its url, its depth, the fetch that asked for it (0: Scrape),
\* and, for the record, whether an anchor with "Next" in its text was served on its page.
NewFetch(u, d, p) ==
    [url |-> u, depth |-> d, phase |-> "queued", parent |-> p, sawNext |-> FALSE]

\* A result block with no text in it, and no result yet.
NoBlock == [title |-> << >>, snippet |-> << >>, link |-> << >>, authors |-> << >>]
NoResult == [fn |-> "none", out |-> << >>]

SetPhase(f, ph) == [fetches EXCEPT ![f].phase = ph]

InCallbacks(f) == fetches[f].phase \in {"body", "nav"}

Init ==
    /\ pc = "start"
    /\ maxPages \in PageCaps
    /\ term \in Terms
    /\ currentPage = 0
    /\ citations = 0
    /\ totalCitations = 0
    /\ lastProcessedPage = -1
    /\ buf = << >>
    /\ file = << >>
    /\ werr = FALSE
    /\ log = << >>
    /\ fetches = << >>
    /\ visited = {}
    /\ written = << >>
    /\ foundOn = << >>
    /\ issued = 0
    /\ keptServed = 0
    /\ arg = NoBlock
    /\ res = NoResult

\* ------------------------------------------------------------ main, Scrape

\* writeHeaders: writer.Write(headers.values), no Flush.  The writer is fresh and
\* the header fits its buffer, so the Write touches no file and returns nil.
writeHeaders ==
    /\ pc = "start"
    /\ buf' = Append(buf, Header)
    /\ pc' = "headed"
    /\ UNCHANGED << maxPages, term, crawlVars, file, werr, log, fetches, visited,
                    written, foundOn, issued, keptServed, blockVars >>

\* The collector's request check: depth limit, then the visited-url store.
requestCheckFails(u, depth) == depth > MaxDepth \/ u \in visited

\* c.Visit(url) accepted: the fetch goroutine is started (Async), Visit returns nil.
VisitStart ==
    /\ pc = "headed"
    /\ ~requestCheckFails(0, 1)
    /\ fetches' = Append(fetches, NewFetch(0, 1, 0))
    /\ visited' = visited \cup {0}
    /\ pc' = "waiting"
    /\ UNCHANGED << maxPages, term, crawlVars, sinkVars, log, issued,
                    keptServed, blockVars >>

\* c.Visit(url) rejected before any request is made (the start url does not pass
\* the collector's checks): log.Fatalf.
VisitFatal ==
    /\ pc = "headed"
    /\ log' = Logged(log, Line("Fatal", 0, 0))
    /\ pc' = "fatal"
    /\ UNCHANGED << maxPages, term, crawlVars, sinkVars, fetches, visited, issued,
                    keptServed, blockVars >>

\* ------------------------------------------------- the collector's fetches

\* The limit rule (Parallelism: 1) lets one fetch at a time make its HTTP request:
\* a fetch takes the domain's request makes the request, waits the delay
\* and gives the slot back.  That is one step here, so requests never overlap;
\* the callbacks run after it, outside the slot.

\* The response arrived: the page's callbacks can run.
Respond(f) ==
    /\ fetches[f].phase = "queued"
    /\ fetches' = SetPhase(f, "body")
    /\ UNCHANGED << pc, maxPages, term, crawlVars, sinkVars, log, visited, issued,
                    keptServed, blockVars >>

\* The request failed (transport error, error status): the OnError callback logs
\* it; no OnHTML and no OnScraped callback runs for the fetch.
OnError(f) ==
    /\ fetches[f].phase = "queued"
    /\ log' = Logged(log, Line("RequestFailed", fetches[f].url, 0))
    /\ fetches' = SetPhase(f, "done")
    /\ UNCHANGED << pc, maxPages, term, crawlVars, sinkVars, visited, issued,
                    keptServed, blockVars >>

\* ------------------------------------------------- the result-block handler

\* A filter that compares the texts as they are.
KeepRecord_CaseSensitive(title, snippet) ==
    /\ ~(title = << >> /\ snippet = << >>)
    /\ \/ Contains(title, term)
       \/ Contains(snippet, term)

\* The filter: the block is dropped if title and snippet are both empty, and
\* kept if the lowered term is in the lowered title or the lowered snippet.
KeepRecord(title, snippet) ==
    /\ ~(title = << >> /\ snippet = << >>)
    /\ \/ Contains(ToLower(title), ToLower(term))
       \/ Contains(ToLower(snippet), ToLower(term))

\* writer.Write's error: the writer's earlier error sticks, or this write fails.
WriteFails(io) == werr \/ io = "writeFail"

\* A counter that is incremented whether or not the write failed.
CountAfter_Always(n, err) == n + 1

\* citations++ / totalCitations++ in the branch err == nil.
CountAfter(n, err) == IF err THEN n ELSE n + 1

\* A write failure that is not logged.
LogAfterWrite_Silent(err) == log

\* The log after the write.
LogAfterWrite(err) == IF err THEN Logged(log, Line("WriteFailed", 0, 0)) ELSE log

\* The result-block handler on the block b of fetch f's page, with the file I/O
\* outcome io of the write it may make.
HandleResultBlock(f, b, io) ==
    /\ fetches[f].phase = "body"
    /\ LET title == TrimSpace(b.title)
           snippet == TrimSpace(b.snippet)
           row == [title |-> title, snippet |-> snippet, page |-> currentPage + 1]
           err == WriteFails(io)
       IN  IF KeepRecord(title, snippet)
           THEN /\ keptServed < MaxKept
                /\ keptServed' = keptServed + 1
                /\ log' = LogAfterWrite(err)
                /\ citations' = CountAfter(citations, err)
                /\ totalCitations' = CountAfter(totalCitations, err)
                /\ written' = IF err THEN written ELSE Append(written, row)
                /\ foundOn' = IF err THEN foundOn ELSE Append(foundOn, f)
                \* writer.Write, then writer.Flush
                /\ werr' = (err \/ io = "flushFail")
                /\ buf' = IF err THEN buf
                          ELSE IF io = "flushFail" THEN Append(buf, row) ELSE << >>
                /\ file' = IF err \/ io = "flushFail" THEN file
                           ELSE file \o Append(buf, row)
           ELSE UNCHANGED << log, citations, totalCitations, sinkVars, keptServed >>
    /\ UNCHANGED << pc, maxPages, term, currentPage, lastProcessedPage, fetches, visited,
                    issued >>

\* OnHTML(".gs_r"): one result block b of fetch f's page in the crawl.
OnResultBlock(f, b, io) == HandleResultBlock(f, b, io) /\ UNCHANGED blockVars

\* --------------------------------------------------- the next-link handler

\* A guard that does not look at the anchor's text.
NextQualifies_AnyText(el) == currentPage < maxPages

\* A guard that lets the page index pass maxPages.
NextQualifies_Inclusive(el) == Contains(el.text, NextText) /\ currentPage <= maxPages

\* A guard with || in the place of &&.
NextQualifies_Or(el) == Contains(el.text, NextText) \/ currentPage < maxPages

\* A guard without the page cap.
NextQualifies_NoCap(el) == Contains(el.text, NextText)

\* The guard of the next-link handler.
NextQualifies(el) == Contains(el.text, NextText) /\ currentPage < maxPages

\* The lines the handler logs before the visit.
LogOnNext ==
    LET l1 == IF lastProcessedPage # currentPage
              THEN Logged(log, Line("PageScraped", currentPage + 1, 0))
              ELSE log
    IN  Logged(l1, Line("Navigating", currentPage + 2, 0))

\* f's record after one more of its anchors has been handled.
AfterAnchor(f, el) ==
    [fetches EXCEPT ![f].phase = "nav",
                    ![f].sawNext = @ \/ Contains(el.text, NextText)]

\* A handler that takes the increment back when the visit is refused.
OnNextLink_Rollback(f, el) ==
    /\ InCallbacks(f)
    /\ IF NextQualifies(el)
       THEN /\ lastProcessedPage' = currentPage
            /\ citations' = 0
            /\ issued' = issued + 1
            /\ IF requestCheckFails(el.href, fetches[f].depth + 1)
               THEN /\ log' = Logged(LogOnNext, Line("VisitError", el.href, 0))
                    /\ fetches' = AfterAnchor(f, el)
                    /\ currentPage' = currentPage
                    /\ UNCHANGED visited
               ELSE /\ log' = LogOnNext
                    /\ fetches' = Append(AfterAnchor(f, el),
                                         NewFetch(el.href, fetches[f].depth + 1, f))
                    /\ currentPage' = currentPage + 1
                    /\ visited' = visited \cup {el.href}
       ELSE /\ fetches' = AfterAnchor(f, el)
            /\ UNCHANGED << lastProcessedPage, currentPage, citations, issued, log, visited >>
    /\ UNCHANGED << pc, maxPages, term, totalCitations, sinkVars, keptServed, blockVars >>

\* OnHTML("#gs_n td a"): one pagination anchor el of fetch f's page.
OnNextLink(f, el) ==
    /\ InCallbacks(f)
    /\ IF NextQualifies(el)
       THEN /\ lastProcessedPage' = currentPage
            /\ currentPage' = currentPage + 1
            /\ citations' = 0
            /\ issued' = issued + 1
            \* e.Request.Visit(nextPage)
            /\ IF requestCheckFails(el.href, fetches[f].depth + 1)
               THEN /\ log' = Logged(LogOnNext, Line("VisitError", el.href, 0))
                    /\ fetches' = AfterAnchor(f, el)
                    /\ UNCHANGED visited
               ELSE /\ log' = LogOnNext
                    /\ fetches' = Append(AfterAnchor(f, el),
                                         NewFetch(el.href, fetches[f].depth + 1, f))
                    /\ visited' = visited \cup {el.href}
       ELSE /\ fetches' = AfterAnchor(f, el)
            /\ UNCHANGED << lastProcessedPage, currentPage, citations, issued, log, visited >>
    /\ UNCHANGED << pc, maxPages, term, totalCitations, sinkVars, keptServed, blockVars >>

\* ------------------------------------------------ the request-completed handler

\* A handler without the lastProcessedPage guard.
OnScraped_Unguarded(f) ==
    /\ InCallbacks(f)
    /\ fetches' = SetPhase(f, "done")
    /\ lastProcessedPage' = currentPage
    /\ log' = Logged(log, Line("Found", totalCitations, currentPage))
    /\ UNCHANGED << pc, maxPages, term, currentPage, citations, totalCitations, sinkVars,
                    visited, issued, keptServed, blockVars >>

\* OnScraped: the page's elements are all handled; the fetch goroutine ends.
OnScraped(f) ==
    /\ InCallbacks(f)
    /\ fetches' = SetPhase(f, "done")
    /\ IF lastProcessedPage # currentPage
       THEN /\ lastProcessedPage' = currentPage
            /\ log' = Logged(log, Line("Found", totalCitations, currentPage))
       ELSE UNCHANGED << lastProcessedPage, log >>
    /\ UNCHANGED << pc, maxPages, term, currentPage, citations, totalCitations, sinkVars,
                    visited, issued, keptServed, blockVars >>

\* ------------------------------------------------------- the end of the run

\* A Wait that returns while fetches are still running.
AllDone_NoWait == TRUE

\* c.Wait(): every fetch goroutine has ended.
AllDone == \A f \in 1..Len(fetches) : fetches[f].phase = "done"

\* c.Wait() returns when every fetch goroutine has ended; the total is logged.
WaitTotal ==
    /\ pc = "waiting"
    /\ AllDone
    /\ log' = Logged(log, Line("Total", totalCitations, 0))
    /\ pc' = "totalled"
    /\ UNCHANGED << maxPages, term, crawlVars, sinkVars, fetches, visited, issued,
                    keptServed, blockVars >>

\* main's summary line, after Scrape has returned.
Summary ==
    /\ pc = "totalled"
    /\ log' = Logged(log, Line("Complete", currentPage, 0))
    /\ pc' = "done"
    /\ UNCHANGED << maxPages, term, crawlVars, sinkVars, fetches, visited, issued,
                    keptServed, blockVars >>

Next ==
    \/ writeHeaders
    \/ VisitStart
    \/ VisitFatal
    \/ \E f \in 1..Len(fetches) : Respond(f)
    \/ \E f \in 1..Len(fetches) : OnError(f)
    \/ \E f \in 1..Len(fetches), b \in BlockSet, io \in IoSet : OnResultBlock(f, b, io)
    \/ \E f \in 1..Len(fetches), el \in NavSet(visited) : OnNextLink(f, el)
    \/ \E f \in 1..Len(fetches) : OnScraped(f)
    \/ WaitTotal
    \/ Summary

Spec == Init /\ [][Next]_vars

\* main proceeds from one statement to the next, every request ends (response
\* or error), and the parse of every page received comes to its end.
FairSpec ==
    /\ Spec
    /\ WF_vars(writeHeaders)
    /\ WF_vars(VisitStart \/ VisitFatal)
    /\ WF_vars(\E f \in 1..Len(fetches) : Respond(f) \/ OnError(f) \/ OnScraped(f))
    /\ WF_vars(WaitTotal)
    /\ WF_vars(Summary)

\* ----------------------------------------------------- the field extractors

Digits == <<"0","1","2","3","4","5","6","7","8","9">>

\* \d
IsDigit(c) == \E i \in 1..Len(Digits) : Digits[i] = c

\* The regular expression (19|20)\d{2} matches s from position i on.
reMatchAt(s, i) ==
    /\ i + 3 <= Len(s)
    /\ \/ s[i] = "1" /\ s[i + 1] = "9"
       \/ s[i] = "2" /\ s[i + 1] = "0"
    /\ IsDigit(s[i + 2])
    /\ IsDigit(s[i + 3])

\* A search that returns the last match.
FindString_Rightmost(s) ==
    LET at == { i \in 1..Len(s) : reMatchAt(s, i) }
    IN  IF at = {} THEN << >>
        ELSE LET i == CHOOSE i \in at : \A j \in at : j <= i
             IN  SubSeq(s, i, i + 3)

\* re.FindString: the leftmost match, the empty text when there is none.
FindString(s) ==
    LET at == { i \in 1..Len(s) : reMatchAt(s, i) }
    IN  IF at = {} THEN << >>
        ELSE LET i == CHOOSE i \in at : \A j \in at : i <= j
             IN  SubSeq(s, i, i + 3)

\* parts[len(parts)-1] of strings.Split(s, "-"): what follows the last "-".
LastPart(s) ==
    LET at == { i \in 1..Len(s) : s[i] = "-" }
    IN  IF at = {} THEN s
        ELSE LET i == CHOOSE i \in at : \A j \in at : j <= i
             IN  SubSeq(s, i + 1, Len(s))

Unknown == <<"U","n","k","n","o","w","n">>

extractDate(authors) ==
    IF FindString(authors) # << >> THEN FindString(authors)
    ELSE IF Contains(authors, <<"-">>)
         THEN LET lastPart == TrimSpace(LastPart(authors))
              IN  IF FindString(lastPart) # << >> THEN FindString(lastPart)
                  ELSE lastPart
         ELSE Unknown

DoiOrg == <<"d","o","i",".","o","r","g">>
Doi == <<"d","o","i">>
NA == <<"N","/","A">>

\* A test for "doi" in the place of "doi.org".
extractDOI_Short(link) == IF Contains(link, Doi) THEN link ELSE NA

extractDOI(link) == IF Contains(link, DoiOrg) THEN link ELSE NA

\* ------------------------------------------- one result block on its own

\* The tokens a text of a block is made of, at most.
MaxTokens == 3

RECURSIVE Cat(_)
Cat(ws) == IF ws = << >> THEN << >> ELSE Head(ws) \o Cat(Tail(ws))

\* The texts made of at most MaxTokens tokens of T.
TextsOf(T) == UNION { { Cat(w) : w \in [1..k -> T] } : k \in 0..MaxTokens }

\* What the site can serve in a block's .gs_a (authors, venue, year, publisher).
AuthorTokens ==
    { <<"2","0","1","9">>, <<"1","9","9","9">>, <<"1","9">>, <<"2","0">>, <<"1","8">>,
      <<"9">>, <<"1">>, <<"0">>, <<"-">>, <<" ">>, <<"a">> }

\* What the site can serve as the href of a block's .gs_rt a.
LinkTokens == { DoiOrg, Doi, <<".","o","r","g">>, NA, <<"x">> }

\* What the site can serve as a block's title and snippet.
Titles == { << >>, <<" ">>, <<"x">>, <<"D","e">>, <<" ","d","E"," ">>, <<"D"," ","e">>,
            <<"E","d">> }
Snippets == { << >>, <<" ">>, <<"x">>, <<"d","E"," ">> }

\* The search terms a block is filtered for.
BlockTerms == { <<"d","E">>, <<"D","e">>, <<"X">>, <<"e">> }

BlockArgs ==
    { [NoBlock EXCEPT !.title = t, !.snippet = sn] : t \in Titles, sn \in Snippets }
      \cup { [NoBlock EXCEPT !.authors = a] : a \in TextsOf(AuthorTokens) }
      \cup { [NoBlock EXCEPT !.link = l] : l \in TextsOf(LinkTokens) }

\* The first page has arrived and its result blocks are about to be handled;
\* arg is the next of them.
BlockInit ==
    /\ pc = "waiting"
    /\ maxPages = 1
    /\ term \in BlockTerms
    /\ currentPage = 0
    /\ citations = 0
    /\ totalCitations = 0
    /\ lastProcessedPage = -1
    /\ buf = << Header >>
    /\ file = << >>
    /\ werr = FALSE
    /\ log = << >>
    /\ fetches = << [NewFetch(0, 1, 0) EXCEPT !.phase = "body"] >>
    /\ visited = {0}
    /\ written = << >>
    /\ foundOn = << >>
    /\ issued = 0
    /\ keptServed = 0
    /\ arg \in BlockArgs
    /\ res = NoResult

\* extractDate on the block's authors text
ApplyExtractDate ==
    /\ res = NoResult
    /\ res' = [fn |-> "extractDate", out |-> extractDate(arg.authors)]
    /\ UNCHANGED << pc, maxPages, term, crawlVars, sinkVars, log, fetches, visited, issued,
                    keptServed, arg >>

\* extractDOI on the block's link
ApplyExtractDOI ==
    /\ res = NoResult
    /\ res' = [fn |-> "extractDOI", out |-> extractDOI(arg.link)]
    /\ UNCHANGED << pc, maxPages, term, crawlVars, sinkVars, log, fetches, visited, issued,
                    keptServed, arg >>

\* The empty-row discard, the filter and the write, on the block arg.
FilterBlock ==
    /\ res = NoResult
    /\ \E io \in IoSet : HandleResultBlock(1, arg, io)
    /\ res' = [fn |-> "filter", out |-> << >>]
    /\ UNCHANGED arg

BlockNext ==
    \/ ApplyExtractDate
    \/ ApplyExtractDOI
    \/ FilterBlock

BlockSpec == BlockInit /\ [][BlockNext]_vars

\* ------------------------------------------------------ reading the history

HasLine(k) == \E i \in 1..Len(log) : log[i].k = k

Children(f) == { g \in 1..Len(fetches) : fetches[g].parent = f }

\* The run so far went down a single chain of pages: every visit was accepted,
\* every request answered, and no page started more than one visit.
CleanChain ==
    /\ ~HasLine("VisitError")
    /\ ~HasLine("RequestFailed")
    /\ \A f \in 1..Len(fetches) : Cardinality(Children(f)) <= 1

\* The pages whose callbacks have all run.
Completed == { f \in 1..Len(fetches) : fetches[f].phase = "done" }

\* The pages that carried an anchor with "Next" in its text.
WithNext == { f \in 1..Len(fetches) : fetches[f].sawNext }

\* A step in which a record passed the filter and its write failed.
FailedWriteStep == keptServed' = keptServed + 1 /\ written' = written

\* ------------------------------------------------------------------ claims

\* C1 (as stated): over a chain in which every page advertises a "Next" link, a
\* run with maxPages = M visits exactly M pages: it never starts a visit beyond
\* the M-th page, and when it is over it has visited M pages.
C1_PageCap ==
    (CleanChain /\ Completed \subseteq WithNext)
        => /\ Len(fetches) <= maxPages
           /\ pc = "done" => Len(fetches) = maxPages

\* C2: over a chain of K pages, each but the last carrying one "Next" link and
\* the last carrying none, and with maxPages >= K, the finished run has visited
\* exactly the K pages; and the run does finish.
C2_NaturalTermination ==
    /\ [](( /\ pc = "done"
            /\ CleanChain
            /\ ~fetches[Len(fetches)].sawNext
            /\ maxPages >= 1 + Cardinality(WithNext) )
          => Len(fetches) = 1 + Cardinality(WithNext))
    /\ <>(pc \in {"done", "fatal"})

\* C2's case: a finished two-page chain, the second page without a "Next" link.
C2_Witness ==
    /\ pc = "done"
    /\ CleanChain
    /\ Len(fetches) = 2
    /\ fetches[1].sawNext
    /\ ~fetches[2].sawNext
    /\ maxPages = 2

\* C3 (as stated): the rows are written page by page in the order the pages
\* were visited, and a row's Page is 1 plus the index of the page it was found on
\* (the first page visited has index 0).
C3_RecordOrdering ==
    \A i \in 1..Len(written) :
        /\ written[i].page = (foundOn[i] - 1) + 1
        /\ i < Len(written) => foundOn[i] <= foundOn[i + 1]

\* C4: totalCitations is the number of rows whose write succeeded, and a write
\* that fails changes neither citations nor totalCitations.
C4_CountEqualsWrites ==
    /\ [](totalCitations = Len(written))
    /\ [][FailedWriteStep => (citations' = citations /\ totalCitations' = totalCitations)]_vars

\* C4's case: one row written and counted, and another write failed.
C4_Witness == totalCitations = 1 /\ Len(written) = 1 /\ HasLine("WriteFailed")

\* C5: currentPage never exceeds maxPages, and a visit is issued by the next-link
\* handler only from a state with currentPage < maxPages, in the step that
\* increments currentPage.
C5_PageIndexBounded ==
    /\ [](currentPage <= maxPages)
    /\ [][issued' # issued => (currentPage < maxPages /\ currentPage' = currentPage + 1)]_vars

\* C5's case: one page with several qualifying "Next" anchors drove currentPage
\* to maxPages.
C5_Witness == maxPages = 2 /\ currentPage = 2 /\ issued = 2 /\ Len(fetches) = 1

\* C6 (as stated): a result delivered again under the same page index is not
\* written a second time: no two written rows that are equal, Page included,
\* come from two different deliveries.
C6_AtMostOnce ==
    \A i, j \in 1..Len(written) :
        (i < j /\ written[i] = written[j]) => foundOn[i] = foundOn[j]

\* C7 (as stated): once a sink call has returned, what it wrote is in the file:
\* barring an I/O error nothing is left in the writer's buffer, and at the end of
\* the run the file holds the header row and then the written rows.
C7_SinkDurable ==
    ~werr => /\ buf = << >>
             /\ pc = "done" => file = <<Header>> \o written

\* C8 (as stated): the visit of the next page is dispatched only when every
\* callback of the page that asked for it has completed.
C8_SingleFlight ==
    \A f \in 1..Len(fetches) :
        fetches[f].parent # 0 => fetches[fetches[f].parent].phase = "done"

C10_InitialFailureAborts ==
    /\ (pc = "fatal" \/ \E i \in 1..Len(log) : log[i] = Line("RequestFailed", 0, 0))
          => ~HasLine("Total") /\ ~HasLine("Complete") /\ ~HasLine("Found")
    /\ HasLine("VisitError") => pc # "fatal"

\* The lines of kind k logged so far.
LinesOf(k) == { i \in 1..Len(log) : log[i].k = k }

\* C11: the total is logged only when every fetch started has ended; once it is
\* logged no row is written, no counter changes and no fetch starts or moves;
\* and the total logged is the number of rows whose write succeeded.
C11_CompletionBarrier ==
    /\ [](HasLine("Total") => AllDone)
    /\ [][HasLine("Total") => UNCHANGED << written, buf, file, citations, totalCitations,
                                          currentPage, fetches >>]_vars
    /\ [](\A i \in LinesOf("Total") : log[i].a = Len(written))

\* C11's case: a finished two-page run with a row written on each page and the
\* total logged.
C11_Witness ==
    /\ pc = "done"
    /\ foundOn = << 1, 2 >>
    /\ \E i \in LinesOf("Total") : log[i].a = 2

\* C12 (as stated): the summary's page figure is the number of pages visited: a
\* finished chain of K pages ending without a "Next" link, with maxPages >= K,
\* reports K.
C12_PagesVisitedSummary ==
    ( /\ CleanChain
      /\ Len(fetches) >= 1
      /\ ~fetches[Len(fetches)].sawNext
      /\ maxPages >= Len(fetches) )
        => \A i \in LinesOf("Complete") : log[i].a = Len(fetches)

\* C13: handling an anchor whose text does not contain "Next" changes nothing of
\* the crawl: currentPage, both counters, lastProcessedPage, the log and the
\* visited urls stay, no visit is issued and no fetch is started.
C13_NonNextFrame ==
    [][\A f \in 1..Len(fetches), el \in NavSet(visited) :
          (OnNextLink(f, el) /\ ~Contains(el.text, NextText))
              => /\ UNCHANGED << crawlVars, log, visited, issued, sinkVars >>
                 /\ Len(fetches') = Len(fetches)]_vars

\* C13's case: a page's anchors were handled, none of them a "Next" link, while
\* currentPage was still below maxPages.
C13_Witness ==
    /\ Len(fetches) = 1
    /\ fetches[1].phase = "nav"
    /\ ~fetches[1].sawNext
    /\ currentPage = 0
    /\ log = << >>

\* C14 (as stated): every transition to a next page, taken from page index n,
\* comes with the line "Page n+1 scraped", logged exactly once in the run.
C14_PageScrapedOnce ==
    \A i \in LinesOf("Navigating") :
        Cardinality({ j \in 1..Len(log) :
                        log[j] = Line("PageScraped", log[i].a - 1, 0) }) = 1

\* OnScraped has run since currentPage last changed: it logged its line for
\* this page index.
ScrapedAtCurrent == \E i \in LinesOf("Found") : log[i].b = currentPage

\* C15: an OnScraped invocation that follows another one with currentPage
\* unchanged in between logs nothing and changes no crawl state.
C15_ScrapedIdempotent ==
    [][((\E f \in 1..Len(fetches) : OnScraped(f)) /\ ScrapedAtCurrent)
          => UNCHANGED << log, crawlVars, sinkVars, visited, issued >>]_vars

\* C15's case: both pages of a run ended in OnScraped under the same currentPage,
\* and one line was logged for it.
C15_Witness ==
    /\ maxPages = 1
    /\ currentPage = 1
    /\ Len(fetches) = 2
    /\ AllDone
    /\ ~HasLine("RequestFailed")
    /\ Cardinality(LinesOf("Found")) = 1

\* Two characters that are the same letter, whatever their case.
SameLetter(a, b) == a = b \/ \E k \in 1..Len(Upper) : {a, b} = {Upper[k], Lower[k]}

\* sub occurs in s, case apart.
OccursFolded(s, sub) ==
    \E i \in 0..(Len(s) - Len(sub)) : \A j \in 1..Len(sub) : SameLetter(s[i + j], sub[j])

\* The block b is one the filter is to keep: its title and snippet, as
\* extracted (trimmed), are not both empty and one of them holds the term.
Matches(b) ==
    /\ ~(TrimSpace(b.title) = << >> /\ TrimSpace(b.snippet) = << >>)
    /\ \/ OccursFolded(TrimSpace(b.title), term)
       \/ OccursFolded(TrimSpace(b.snippet), term)

\* The handler called writer.Write: a row was written or a write error logged.
WriteAttempted == written # << >> \/ HasLine("WriteFailed")

\* C16: the handler writes a block to the sink exactly when the block's title
\* and snippet are not both empty and the term occurs, case apart, in one of
\* them; a block that is not written leaves the sink, the counters and the log
\* as they were.
C16_Filter ==
    res.fn = "filter" =>
        /\ WriteAttempted <=> Matches(arg)
        /\ ~Matches(arg) => /\ buf = << Header >> /\ file = << >> /\ ~werr
                            /\ written = << >> /\ log = << >>
                            /\ citations = 0 /\ totalCitations = 0

\* C16's case: a block whose title holds the term in another case was written.
C16_Witness ==
    /\ res.fn = "filter"
    /\ term = <<"d","E">>
    /\ arg.title = <<"D","e">>
    /\ arg.snippet = << >>
    /\ Len(written) = 1
    /\ totalCitations = 1

\* "doi.org" occurs in s.
HasDoiOrg(s) == \E i \in 1..Len(s) : i + 6 <= Len(s) /\ SubSeq(s, i, i + 6) = DoiOrg

\* C17 (as stated): extractDOI returns its argument unchanged exactly when the
\* argument contains "doi.org".
C17_UnchangedIffDoi ==
    res.fn = "extractDOI" => (res.out = arg.link <=> HasDoiOrg(arg.link))

\* C17 (amended): extractDOI returns the link itself when the link contains "doi.org" and
\* "N/A" when it does not, so that (the link "N/A" apart, which is returned as
\* it is) the link comes back unchanged exactly when it contains "doi.org"; and
\* extractDOI applied to its own result returns that result.
C17_ExtractDOI ==
    res.fn = "extractDOI" =>
        /\ HasDoiOrg(arg.link) => res.out = arg.link
        /\ ~HasDoiOrg(arg.link) => res.out = NA
        /\ arg.link # NA => (res.out = arg.link <=> HasDoiOrg(arg.link))
        /\ extractDOI(res.out) = res.out

\* C17's case: a link with "doi.org" inside it came back unchanged.
C17_Witness ==
    /\ res.fn = "extractDOI"
    /\ arg.link = <<"x">> \o DoiOrg \o <<"x">>
    /\ res.out = arg.link

\* The digit c as a number.
DigitVal(c) == (CHOOSE i \in 1..Len(Digits) : Digits[i] = c) - 1

\* Four digits start at position i of s and read as a year from 1900 to 2099.
YearAt(s, i) ==
    /\ i + 3 <= Len(s)
    /\ \A k \in 0..3 : IsDigit(s[i + k])
    /\ 1000 * DigitVal(s[i]) + 100 * DigitVal(s[i + 1])
          + 10 * DigitVal(s[i + 2]) + DigitVal(s[i + 3]) \in 1900..2099

Years(s) == { i \in 1..Len(s) : YearAt(s, i) }

\* C18: when the authors text contains four digits that read as a year from
\* 1900 to 2099, extractDate returns the leftmost such four digits, with or
\* without "-" in the text.
C18_ExtractDate ==
    (res.fn = "extractDate" /\ Years(arg.authors) # {}) =>
        LET i == CHOOSE i \in Years(arg.authors) : \A j \in Years(arg.authors) : i <= j
        IN  res.out = SubSeq(arg.authors, i, i + 3)

\* C18's case: a text with two years and a "-" between them gave the first.
C18_Witness ==
    /\ res.fn = "extractDate"
    /\ arg.authors = <<"1","9","9","9","-","2","0","1","9">>
    /\ res.out = <<"1","9","9","9">>

\* C19: currentPage never decreases; the step whose visit is refused still
\* increments it; and the summary's page figure is the number of visits
\* attempted, the refused ones included.
C19_PageIndexMonotone ==
    /\ [][currentPage' >= currentPage]_vars
    /\ [][Cardinality(LinesOf("VisitError")') > Cardinality(LinesOf("VisitError"))
            => currentPage' = currentPage + 1]_vars
    /\ [](\A i \in LinesOf("Complete") : log[i].a = issued)

\* C19's case: a finished run in which a next-page visit was refused and a
\* next-page request failed, with the summary showing both attempts.
C19_Witness ==
    /\ pc = "done"
    /\ HasLine("VisitError")
    /\ \E i \in LinesOf("RequestFailed") : log[i].a # 0
    /\ \E i \in LinesOf("Complete") : log[i].a = 2

\* C20: the next-link handler issues at most maxPages visits, so at most
\* maxPages + 1 fetches are started, whatever the pages carry; and every run
\* comes to its end.
C20_BoundedCrawl ==
    /\ [](issued <= maxPages)
    /\ [](Len(fetches) <= maxPages + 1)
    /\ (pc = "waiting" ~> pc = "done")

\* C20's case: a finished run over pages that all advertise "Next": the cap
\* stopped it after maxPages visits and maxPages + 1 fetches.
C20_Witness ==
    /\ pc = "done"
    /\ maxPages = 2
    /\ issued = 2
    /\ Len(fetches) = 3
    /\ \A f \in 1..Len(fetches) : fetches[f].sawNext

====
